---- MODULE Spec2Model ----
(***************************************************************************)
(* SamuraiAgent (backend/sensei_search/agents/samurai_agent.py): one run   *)
(* of the query-resolution pipeline as an asyncio task with its gather     *)
(* fan-outs, and the text functions process_user_query applies to the      *)
(* model's outputs.                                                        *)
(*                                                                         *)
(* Text is a sequence of tokens: a token is one character that the code    *)
(* treats specially (quote, comma, colon, blank) or a whole word that      *)
(* contains none of them.                                                  *)
(***************************************************************************)
EXTENDS Integers, Sequences, FiniteSets, TLC

\* ------------------------------------------------------------------ bounds

\* longest classification output enumerated token by token
MaxTokens == 4
\* most results one search call returns per category
MaxResults == 6
\* most media items of one kind a search call returns
MaxMedia == 1
\* most chunks the streaming completion delivers
MaxChunks == 2
\* most general results of a search call in the runs checked for termination
FewResults == 2
\* longest rewrite output enumerated token by token
MaxQueryTokens == 4

\* general_results[:5]
TopK == 5

\* ------------------------------------------------------------------ text

DQ == "\""
SQ == "'"
SP == " "
COMMA == ","
COLON == ":"

Keys == {"SEARCH_NEEDED", "SEARCH_IMAGE", "SEARCH_VIDEO", "CONTENT_VIOLATION", "MATH"}

KeyOrder == <<"SEARCH_NEEDED", "SEARCH_IMAGE", "SEARCH_VIDEO", "CONTENT_VIOLATION", "MATH">>

\* a call F(e) of Python: the argument is evaluated once, before the call
ByValue(e, F(_)) == CHOOSE r \in {F(x) : x \in {e}} : TRUE

\* str.strip(chars): drop every leading and trailing token that is in chars
strip(str, chars) ==
    ByValue(str, LAMBDA s :
        LET keep == {i \in 1..Len(s) : s[i] \notin chars}
            lo == CHOOSE i \in keep : \A j \in keep : i <= j
            hi == CHOOSE i \in keep : \A j \in keep : j <= i
        IN  IF keep = {} THEN <<>> ELSE SubSeq(s, lo, hi))

\* str.split(sep): n separators give n + 1 pieces, empty pieces kept
split(str, sep) ==
    ByValue(str, LAMBDA s :
        LET at == {i \in 1..Len(s) : s[i] = sep}
            n == Cardinality(at)
            pos(k) == IF k = 0 THEN 0
                      ELSE IF k = n + 1 THEN Len(s) + 1
                      ELSE CHOOSE i \in at : Cardinality({j \in at : j <= i}) = k
        IN  [k \in 1..(n + 1) |-> SubSeq(s, pos(k - 1) + 1, pos(k) - 1)])

\* classify_response.strip('"').strip("'")
strip_quotes(s) == strip(strip(s, {DQ}), {SQ})

\* [tag.strip().split(":") for tag in classify_response.split(",")]
tag_lists(s) ==
    ByValue(split(s, COMMA), LAMBDA tags :
        [k \in 1..Len(tags) |-> split(strip(tags[k], {SP}), COLON)])

\* a dict() that only looks for a key and a value and ignores what follows them
dict_ok_at_least_two(lists) == \A k \in 1..Len(lists) : Len(lists[k]) >= 2

\* dict(...) raises ValueError unless every element has exactly two parts
dict_ok(lists) == \A k \in 1..Len(lists) : Len(lists[k]) = 2

\* tags_dict.get(key, default): the last pair with that key wins
dict_get(lists, key, default) ==
    LET hits == {k \in 1..Len(lists) : lists[k][1] = <<key>>}
        last == CHOOSE k \in hits : \A j \in hits : j <= k
    IN  IF hits = {} THEN <<default>> ELSE lists[last][2]

\* tags_dict.get(key, default).strip() == "YES"
tag_is_yes(lists, key, default) == strip(dict_get(lists, key, default), {SP}) = <<"YES">>

\* QueryTags with SEARCH_VIDEO defaulting to NO
QueryTags_video_off(lists) ==
    [needs_search |-> tag_is_yes(lists, "SEARCH_NEEDED", "YES"),
     needs_image |-> tag_is_yes(lists, "SEARCH_IMAGE", "YES"),
     needs_video |-> tag_is_yes(lists, "SEARCH_VIDEO", "NO"),
     content_violation |-> tag_is_yes(lists, "CONTENT_VIOLATION", "NO"),
     has_math |-> tag_is_yes(lists, "MATH", "NO")]

QueryTags(lists) ==
    [needs_search |-> tag_is_yes(lists, "SEARCH_NEEDED", "YES"),
     needs_image |-> tag_is_yes(lists, "SEARCH_IMAGE", "YES"),
     needs_video |-> tag_is_yes(lists, "SEARCH_VIDEO", "YES"),
     content_violation |-> tag_is_yes(lists, "CONTENT_VIOLATION", "NO"),
     has_math |-> tag_is_yes(lists, "MATH", "NO")]

NoTags ==
    [needs_search |-> FALSE, needs_image |-> FALSE, needs_video |-> FALSE,
     content_violation |-> FALSE, has_math |-> FALSE]

\* the parsing part of process_user_query: the tags, or the ValueError of dict()
parse_tags(classify_response) ==
    ByValue(tag_lists(strip_quotes(classify_response)), LAMBDA lists :
        IF dict_ok(lists)
        THEN [ok |-> TRUE, tags |-> QueryTags(lists)]
        ELSE [ok |-> FALSE, tags |-> NoTags])

\* query.strip('"').strip("'")
parse_query(search_response) == strip_quotes(search_response)

\* ------------------------------------------------------------ collaborators

\* what the rewrite completion may answer
RewriteOutputs == {<<"q">>, <<DQ, "q", DQ>>, <<SQ, "q", SQ>>}

\* an Optional result slot: None, or the value it holds
NoResult == <<>>

\* one organic hit of the search backend, with a field the client never sees
GeneralResult(i) == [url |-> i, title |-> i, content |-> i, score |-> i]

Image(j) == [url |-> 100 + j, img_src |-> 150 + j]

Video(j) == [url |-> 200 + j]

TopResults(g, i, v) ==
    [general |-> [k \in 1..g |-> GeneralResult(k)],
     images |-> [k \in 1..i |-> Image(k)],
     videos |-> [k \in 1..v |-> Video(k)]]

\* searxng_search_results_json: a category that was not asked for comes back empty
SearchResponses(categories) ==
    {TopResults(g, i, v) :
        g \in (IF "general" \in categories THEN 0..MaxResults ELSE {0}),
        i \in (IF "images" \in categories THEN 0..MaxMedia ELSE {0}),
        v \in (IF "videos" \in categories THEN 0..MaxMedia ELSE {0})}

\* response.text() of the page behind a url
Html(url) == <<"html", url>>

\* response.text() of a response whose status is not 2xx: the body of the
\* error page (session.get does not raise for a status)
ErrorPage(url) == <<"error", url>>

\* fetch_page fell into its except branch and returned None
None == <<"None">>

Pending == <<"pending">>

\* trafilatura.extract: the body text of a page, the empty document for ""
extract(page) == IF page = <<>> THEN <<>> ELSE <<"text">> \o page

\* the contents the streaming completion may deliver in one chunk; <<>> is a
\* chunk whose delta.content is empty
Fragments == {<<"a">>, <<"b">>}

Chunks == Fragments \cup {<<>>}

\* emitter.emit either hands the event to the client channel or raises
EmitOutcomes == {"sent", "raise"}

Ids == {"id1", "id2"}

\* a join that returns the first part only
concat_first(parts) == IF parts = <<>> THEN <<>> ELSE Head(parts)

RECURSIVE concat(_)
\* "".join(parts)
concat(parts) == IF parts = <<>> THEN <<>> ELSE Head(parts) \o concat(Tail(parts))

RECURSIVE join(_, _)
\* sep.join(items)
join(items, sep) ==
    IF items = <<>> THEN <<>>
    ELSE IF Len(items) = 1 THEN items[1]
    ELSE items[1] \o sep \o join(Tail(items), sep)

YesNo == {"YES", "NO"}

\* the classifier's answer for the keys it chose to mention, in prompt order
Assignments(keys) == UNION {[D -> YesNo] : D \in SUBSET keys}

Styles == {"plain", "spaced", "dq", "sq"}

Render(f, style) ==
    LET present == SelectSeq(KeyOrder, LAMBDA k : k \in DOMAIN f)
        colon == IF style = "spaced" THEN <<COLON, SP>> ELSE <<COLON>>
        comma == IF style = "spaced" THEN <<COMMA, SP>> ELSE <<COMMA>>
        items == [i \in 1..Len(present) |-> <<present[i]>> \o colon \o <<f[present[i]]>>]
        body == join(items, comma)
    IN  CASE style = "dq" -> <<DQ>> \o body \o <<DQ>>
          [] style = "sq" -> <<SQ>> \o body \o <<SQ>>
          [] OTHER -> body

RunTokens == {"MATH", "YES", "MAYBE", COLON, COMMA, SP, DQ}

TokenStrings(n) == UNION {[1..k -> RunTokens] : k \in 0..n}

\* what the classification completion may answer in a run
ClassifyOutputs ==
    TokenStrings(MaxTokens) \cup {Render(f, "plain") : f \in Assignments(Keys)}

\* fewer answers of the classification completion: the media keys in every
\* combination, and one answer that does not parse
FewClassifyOutputs ==
    {Render(f, "plain") : f \in Assignments({"SEARCH_IMAGE", "SEARCH_VIDEO"})} \cup {<<"MATH">>}

\* ------------------------------------------------------------------- state

VARIABLES
    pc,                      \* where run() is: the await it is suspended at, Done or Failed
    failed_at,               \* the stage whose exception left run()
    task,                    \* the sub-tasks the gathers of this run created
    search_response,         \* process_user_query: the rewrite completion
    classification_response, \* process_user_query: the classification completion
    query,                   \* enriched_query["search_query"]
    tags,                    \* enriched_query["tags"]
    general_results,         \* search_results["general"]
    html_web_pages,          \* fetch_web_pages: one slot per fetch_page task
    web_pages,               \* what fetch_web_pages returned
    medium_results,          \* the third slot of the step-4 gather
    blocked,                 \* gen_answer inside the synchronous create(): its request
    chunks,                  \* the chunks the stream has delivered so far
    final_answer_parts,      \* gen_answer's accumulator
    answer,                  \* what gen_answer returned
    events,                  \* what the emitter handed to the client, in order
    calls,                   \* the outbound calls issued, in order
    saved,                   \* the records handed to ChatStore.save_chat_history
    given,                   \* the classifier's answer behind classification_response
    earlier                  \* the inputs of the runs that ended before this one

vars == <<pc, failed_at, task, search_response, classification_response, query, tags,
          general_results, html_web_pages, web_pages, medium_results, blocked, chunks,
          final_answer_parts, answer, events, calls, saved, given, earlier>>

TaskNames == {"rewrite", "classify", "search", "emit_metadata", "emit_web_results",
              "fetch_web_pages", "media_search", "gen_answer", "emit_medium_results"}

\* the stage a failed sub-task belongs to
StageOf(t) ==
    CASE t = "rewrite" -> "rewrite"
      [] t = "classify" -> "classification"
      [] t = "search" -> "general_search"
      [] t = "emit_metadata" -> "metadata"
      [] t = "emit_web_results" -> "web_results"
      [] t = "fetch_web_pages" -> "page_fetch"
      [] t = "media_search" -> "media_search"
      [] t = "gen_answer" -> "synthesis"
      [] t = "emit_medium_results" -> "medium_results"

user_message == <<"utterance">>

thread_id == "thread"

NoGiven == [f |-> <<>>, style |-> "none"]

Range(seq) == {seq[i] : i \in DOMAIN seq}

Min(a, b) == IF a <= b THEN a ELSE b

\* ------------------------------------------------------- pieces of the code

\* await self.emitter.emit(type, {"data": data}): the event joins the client's
\* channel when emit is called, unless emit raises
emit(evs, type, data, outcome) ==
    IF outcome = "sent" THEN Append(evs, [type |-> type, data |-> data]) ELSE evs

\* the emitting sub-task after its call of emit: suspended in the await, or dead
after_emit(outcome) == IF outcome = "sent" THEN "waiting" ELSE "failed"

\* MetaData(has_math=True if tags and tags['has_math'] else False)
MetaData(t) == [has_math |-> t.has_math]

\* the record's metadata left at MetaData(has_math=False)
final_metadata_never_math(t) == [has_math |-> FALSE]

\* metadata = MetaData(has_math=False); if tags is not None and tags['has_math']: ...
final_metadata(t) == [has_math |-> IF t.has_math THEN TRUE ELSE FALSE]

SearxNGInput(q, categories) == [kind |-> "search", query |-> q, categories |-> categories]

\* categories that start from [images] instead of []
categories_with_images(t) ==
    <<"images">> \o (IF t.needs_video THEN <<"videos">> ELSE <<>>)

\* categories of a run() that leaves the media out on a content violation
categories_unless_violation(t) ==
    IF t.content_violation THEN <<>>
    ELSE (IF t.needs_image THEN <<"images">> ELSE <<>>) \o
         (IF t.needs_video THEN <<"videos">> ELSE <<>>)

\* categories = []; needs_image appends images, needs_video appends videos
categories_of(t) ==
    (IF t.needs_image THEN <<"images">> ELSE <<>>) \o
    (IF t.needs_video THEN <<"videos">> ELSE <<>>)

\* emit_web_results: url, title and content of every result
filtered_results(results) ==
    [i \in 1..Len(results) |->
        [url |-> results[i].url, title |-> results[i].title, content |-> results[i].content]]

\* emit_medium_results without its second loop
medium_payload_images_only(results) ==
    [i \in 1..Len(results.images) |->
        [url |-> results.images[i].url, image |-> results.images[i].img_src, medium |-> "image"]]

\* emit_medium_results: the images, then the videos
medium_payload(results) ==
    [i \in 1..Len(results.images) |->
        [url |-> results.images[i].url, image |-> results.images[i].img_src, medium |-> "image"]]
    \o [i \in 1..Len(results.videos) |-> [url |-> results.videos[i].url, medium |-> "video"]]

\* run: mediums of the record
record_mediums(results) ==
    [i \in 1..Len(results.images) |->
        [url |-> results.images[i].url, image |-> results.images[i].img_src, medium |-> "image"]]
    \o [i \in 1..Len(results.videos) |-> [url |-> results.videos[i].url, medium |-> "video"]]

\* general_results[:5]
top_results(results) == SubSeq(results, 1, Min(TopK, Len(results)))

\* fetch_web_pages that leaves out the pages it could not fetch
extract_fetched_only(pages) ==
    LET fetched == SelectSeq(pages, LAMBDA page : page # None)
    IN  [i \in 1..Len(fetched) |-> extract(fetched[i])]

\* [trafilatura.extract(page or "") for page in html_web_pages]
extract_all(pages) ==
    [i \in 1..Len(pages) |-> extract(IF pages[i] = None THEN <<>> ELSE pages[i])]

\* if medium_results is None: medium_results = TopResults(general=[], images=[], videos=[])
or_empty(slot) == IF slot = NoResult THEN TopResults(0, 0, 0) ELSE slot[1]

\* a record whose web_results are those of the pages that were fetched
ChatHistory_of_fetched(id, results, general, text, t) ==
    [id |-> id, thread_id |-> thread_id, mediums |-> record_mediums(results),
     web_results |-> filtered_results(top_results(general)), query |-> user_message,
     answer |-> text, metadata |-> final_metadata(t)]

\* chat_history: ChatHistory = {...}
ChatHistory(id, results, general, text, t) ==
    [id |-> id, thread_id |-> thread_id, mediums |-> record_mediums(results),
     web_results |-> filtered_results(general), query |-> user_message,
     answer |-> text, metadata |-> final_metadata(t)]

\* a run that assembles the record and never hands it over
save_nothing(store, record) == store

\* a store that drops a record whose content it already holds
save_unless_known(store, record) ==
    IF \E i \in DOMAIN store :
          /\ store[i].query = record.query
          /\ store[i].answer = record.answer
          /\ store[i].web_results = record.web_results
    THEN store
    ELSE Append(store, record)

\* chat_store.save_chat_history(thread_id, chat_history)
save_chat_history(store, record) == Append(store, record)

\* the gather of process_user_query has both completions
classified == task["rewrite"] = "ok" /\ task["classify"] = "ok"

\* a step-3 join that does not wait for the general search
step3_joined_without_search == task["emit_metadata"] = "ok"

\* the step-3 gather has both results
step3_joined == task["search"] = "ok" /\ task["emit_metadata"] = "ok"

\* a step-4 join that does not wait for fetch_web_pages
step4_joined_without_fetch == task["emit_web_results"] = "ok" /\ task["media_search"] = "ok"

\* a step-4 gather that emit_web_results is not part of
step4_joined_without_emit == task["fetch_web_pages"] = "ok" /\ task["media_search"] = "ok"

\* the step-4 gather has its three results
step4_joined ==
    /\ task["emit_web_results"] = "ok"
    /\ task["fetch_web_pages"] = "ok"
    /\ task["media_search"] = "ok"

\* a step-5 join that does not wait for gen_answer
step5_joined_without_answer == task["emit_medium_results"] = "ok"

\* the step-5 gather has both results
step5_joined == task["gen_answer"] = "ok" /\ task["emit_medium_results"] = "ok"

\* gen_answer from one suspension to the next: the chunks it reads without
\* yielding (empty ones skipped), and how the stretch ends
Advances(delivered) ==
    LET room == MaxChunks - Len(delivered)
    IN  {[skipped |-> e, fragment |-> <<>>, end |-> x] :
            e \in 0..room, x \in {"eof", "error"}}
        \cup
        {[skipped |-> e, fragment |-> f, end |-> x] :
            e \in 0..(room - 1), f \in Fragments, x \in {"emit_sent", "emit_raise"}}

read_chunks(a) ==
    [i \in 1..a.skipped |-> <<>>] \o (IF a.fragment = <<>> THEN <<>> ELSE <<a.fragment>>)

gen_status(a) ==
    CASE a.end = "eof" -> "ok"
      [] a.end = "emit_sent" -> "waiting"
      [] OTHER -> "failed"

\* ----------------------------------------------------------------- actions

Init ==
    /\ pc = "load_chat_history"
    /\ failed_at = "none"
    /\ task = [t \in TaskNames |-> "new"]
    /\ search_response = <<>>
    /\ classification_response = <<>>
    /\ query = <<>>
    /\ tags = NoTags
    /\ general_results = <<>>
    /\ html_web_pages = <<>>
    /\ web_pages = <<>>
    /\ medium_results = NoResult
    /\ blocked = <<>>
    /\ chunks = <<>>
    /\ final_answer_parts = <<>>
    /\ answer = <<>>
    /\ events = <<>>
    /\ calls = <<>>
    /\ saved = <<>>
    /\ given = NoGiven
    /\ earlier = <<>>

\* an exception leaves run()
Fail(stage) ==
    /\ pc' = "Failed"
    /\ failed_at' = stage

\* run: load_chat_history returns, the user message is appended, and
\* process_user_query starts its two completions; or load_chat_history raises
LoadChatHistory ==
    /\ pc = "load_chat_history"
    /\ \/ /\ pc' = "process_user_query"
          /\ calls' = calls \o <<[kind |-> "rewrite"], [kind |-> "classify"]>>
          /\ task' = [task EXCEPT !["rewrite"] = "waiting", !["classify"] = "waiting"]
          /\ UNCHANGED failed_at
       \/ /\ Fail("load")
          /\ UNCHANGED <<calls, task>>
    /\ UNCHANGED <<search_response, classification_response, query, tags, general_results,
                   html_web_pages, web_pages, medium_results, blocked, chunks,
                   final_answer_parts, answer, events, saved, given, earlier>>

\* the rewrite completion returns or raises
RewriteReturns ==
    /\ task["rewrite"] = "waiting"
    /\ \/ \E r \in RewriteOutputs :
            /\ search_response' = r
            /\ task' = [task EXCEPT !["rewrite"] = "ok"]
       \/ /\ task' = [task EXCEPT !["rewrite"] = "failed"]
          /\ UNCHANGED search_response
    /\ UNCHANGED <<pc, failed_at, classification_response, query, tags, general_results,
                   html_web_pages, web_pages, medium_results, blocked, chunks,
                   final_answer_parts, answer, events, calls, saved, given, earlier>>

\* the classification completion returns one of outputs, or raises
ClassifyReturnsFrom(outputs) ==
    /\ task["classify"] = "waiting"
    /\ \/ \E r \in outputs :
            /\ classification_response' = r
            /\ task' = [task EXCEPT !["classify"] = "ok"]
       \/ /\ task' = [task EXCEPT !["classify"] = "failed"]
          /\ UNCHANGED classification_response
    /\ UNCHANGED <<pc, failed_at, search_response, query, tags, general_results,
                   html_web_pages, web_pages, medium_results, blocked, chunks,
                   final_answer_parts, answer, events, calls, saved, given, earlier>>

ClassifyReturns == ClassifyReturnsFrom(ClassifyOutputs)

\* process_user_query after its gather: the tags are parsed; run() then builds
\* the general search input and the metadata and starts the step-3 gather,
\* whose two sub-tasks take their first steps in list order
ProcessUserQuery ==
    /\ pc = "process_user_query"
    /\ classified
    /\ LET parsed == parse_tags(classification_response)
       IN  IF parsed.ok
           THEN \E o \in EmitOutcomes :
                   /\ pc' = "step3"
                   /\ tags' = parsed.tags
                   /\ query' = parse_query(search_response)
                   /\ calls' = Append(calls, SearxNGInput(query', <<"general">>))
                   /\ events' = emit(events, "metadata", MetaData(parsed.tags), o)
                   /\ task' = [task EXCEPT !["search"] = "waiting",
                                           !["emit_metadata"] = after_emit(o)]
                   /\ UNCHANGED failed_at
           ELSE /\ Fail("classification")
                /\ UNCHANGED <<tags, query, calls, events, task>>
    /\ search_response' = <<>>
    /\ classification_response' = <<>>
    /\ UNCHANGED <<general_results, html_web_pages, web_pages, medium_results, blocked,
                   chunks, final_answer_parts, answer, saved, given, earlier>>

\* the gather of process_user_query raises the exception of a failed completion
ProcessUserQueryRaises ==
    /\ pc = "process_user_query"
    /\ \E t \in {"rewrite", "classify"} :
          /\ task[t] = "failed"
          /\ Fail(StageOf(t))
    /\ UNCHANGED <<task, search_response, classification_response, query, tags,
                   general_results, html_web_pages, web_pages, medium_results, blocked,
                   chunks, final_answer_parts, answer, events, calls, saved, given, earlier>>

\* the general search returns one of responses, or raises
SearchReturnsFrom(responses) ==
    /\ task["search"] = "waiting"
    /\ \/ \E r \in responses :
            /\ general_results' = IF pc = "step3" THEN r.general ELSE general_results
            /\ task' = [task EXCEPT !["search"] = "ok"]
       \/ /\ task' = [task EXCEPT !["search"] = "failed"]
          /\ UNCHANGED general_results
    /\ UNCHANGED <<pc, failed_at, search_response, classification_response, query, tags,
                   html_web_pages, web_pages, medium_results, blocked, chunks,
                   final_answer_parts, answer, events, calls, saved, given, earlier>>

SearchReturns == SearchReturnsFrom(SearchResponses({"general"}))

\* the await of an emit ends
EmitReturns(t) ==
    /\ task[t] = "waiting"
    /\ task' = [task EXCEPT ![t] = "ok"]
    /\ UNCHANGED <<pc, failed_at, search_response, classification_response, query, tags,
                   general_results, html_web_pages, web_pages, medium_results, blocked,
                   chunks, final_answer_parts, answer, events, calls, saved, given, earlier>>

EmitMetadataReturns == EmitReturns("emit_metadata")

EmitWebResultsReturns == EmitReturns("emit_web_results")

EmitMediumResultsReturns == EmitReturns("emit_medium_results")

\* run after the step-3 gather: the step-4 gather is built and its sub-tasks
\* take their first steps in list order: emit_web_results calls emit,
\* fetch_web_pages gathers one fetch_page per url, the media search is issued
\* (or noop returns None), then every fetch_page issues its get
RunStep4 ==
    /\ pc = "step3"
    /\ step3_joined
    /\ LET top == top_results(general_results)
           categories == categories_of(tags)
       IN  \E o \in EmitOutcomes :
              /\ pc' = "step4"
              /\ events' = emit(events, "web_results", filtered_results(general_results), o)
              /\ task' = [task EXCEPT
                            !["emit_web_results"] = after_emit(o),
                            !["fetch_web_pages"] = IF top = <<>> THEN "ok" ELSE "waiting",
                            !["media_search"] = IF categories = <<>> THEN "ok" ELSE "waiting"]
              /\ html_web_pages' = [i \in 1..Len(top) |-> Pending]
              /\ calls' = calls
                          \o (IF categories = <<>> THEN <<>>
                              ELSE <<SearxNGInput(query, categories)>>)
                          \o [i \in 1..Len(top) |-> [kind |-> "fetch", url |-> top[i].url]]
    /\ UNCHANGED <<failed_at, search_response, classification_response, query, tags,
                   general_results, web_pages, medium_results, blocked, chunks,
                   final_answer_parts, answer, saved, given, earlier>>

\* the step-3 gather raises the exception of a failed sub-task
Step3Raises ==
    /\ pc = "step3"
    /\ \E t \in {"search", "emit_metadata"} :
          /\ task[t] = "failed"
          /\ Fail(StageOf(t))
    /\ UNCHANGED <<task, search_response, classification_response, query, tags,
                   general_results, html_web_pages, web_pages, medium_results, blocked,
                   chunks, final_answer_parts, answer, events, calls, saved, given, earlier>>

\* fetch_page(url): the text of the response, whatever its status, or None
\* after a logged exception
FetchPage ==
    /\ \E i \in DOMAIN html_web_pages :
          /\ html_web_pages[i] = Pending
          /\ \E page \in {Html(general_results[i].url), ErrorPage(general_results[i].url), None} :
                html_web_pages' = [html_web_pages EXCEPT ![i] = page]
    /\ UNCHANGED <<pc, failed_at, task, search_response, classification_response, query,
                   tags, general_results, web_pages, medium_results, blocked, chunks,
                   final_answer_parts, answer, events, calls, saved, given, earlier>>

\* fetch_web_pages after its gather: every page is extracted
FetchWebPagesReturns ==
    /\ task["fetch_web_pages"] = "waiting"
    /\ \A i \in DOMAIN html_web_pages : html_web_pages[i] # Pending
    /\ web_pages' = extract_all(html_web_pages)
    /\ html_web_pages' = <<>>
    /\ task' = [task EXCEPT !["fetch_web_pages"] = "ok"]
    /\ UNCHANGED <<pc, failed_at, search_response, classification_response, query, tags,
                   general_results, medium_results, blocked, chunks, final_answer_parts,
                   answer, events, calls, saved, given, earlier>>

\* the media search returns or raises
MediaSearchReturns ==
    /\ task["media_search"] = "waiting"
    /\ \/ \E r \in SearchResponses(Range(categories_of(tags))) :
            /\ medium_results' = IF pc = "step4" THEN <<r>> ELSE medium_results
            /\ task' = [task EXCEPT !["media_search"] = "ok"]
       \/ /\ task' = [task EXCEPT !["media_search"] = "failed"]
          /\ UNCHANGED medium_results
    /\ UNCHANGED <<pc, failed_at, search_response, classification_response, query, tags,
                   general_results, html_web_pages, web_pages, blocked, chunks,
                   final_answer_parts, answer, events, calls, saved, given, earlier>>

\* run after the step-4 gather: None is replaced by an empty TopResults, the
\* step-5 gather is built, and gen_answer, first in the list, builds its prompt
\* from web_pages and enters the synchronous create()
RunStep5 ==
    /\ pc = "step4"
    /\ step4_joined
    /\ pc' = "step5"
    /\ medium_results' = <<or_empty(medium_results)>>
    /\ blocked' = <<[kind |-> "synthesize", documents |-> web_pages, user |-> user_message]>>
    /\ calls' = Append(calls, [kind |-> "synthesize"])
    /\ task' = [task EXCEPT !["gen_answer"] = "waiting"]
    /\ web_pages' = <<>>
    /\ UNCHANGED <<failed_at, search_response, classification_response, query, tags,
                   general_results, html_web_pages, chunks, final_answer_parts, answer,
                   events, saved, given, earlier>>

\* the step-4 gather raises the exception of a failed sub-task
Step4Raises ==
    /\ pc = "step4"
    /\ \E t \in {"emit_web_results", "fetch_web_pages", "media_search"} :
          /\ task[t] = "failed"
          /\ Fail(StageOf(t))
    /\ UNCHANGED <<task, search_response, classification_response, query, tags,
                   general_results, html_web_pages, web_pages, medium_results, blocked,
                   chunks, final_answer_parts, answer, events, calls, saved, given, earlier>>

\* the answer event of a stretch of gen_answer, if its emit_answer went through
gen_events(a, evs) ==
    emit(evs, "answer", a.fragment, IF a.end = "emit_sent" THEN "sent" ELSE "raise")

\* gen_answer runs to its next suspension: each chunk with content is appended
\* and emitted; the stream ends, or the stream or the emit raises
GenAdvance(a) ==
    /\ chunks' = chunks \o read_chunks(a)
    /\ final_answer_parts' =
          IF a.fragment = <<>> THEN final_answer_parts
          ELSE Append(final_answer_parts, a.fragment)
    /\ answer' = IF a.end = "eof" THEN concat(final_answer_parts') ELSE answer

\* create() returns the stream or raises; gen_answer runs to its first
\* suspension; then emit_medium_results, second in the list, calls emit
CreateReturns ==
    /\ blocked # <<>>
    /\ blocked' = <<>>
    /\ \E a \in Advances(chunks), o \in EmitOutcomes :
          /\ GenAdvance(a)
          /\ events' = emit(gen_events(a, events), "medium_results",
                            medium_payload(medium_results[1]), o)
          /\ task' = [task EXCEPT !["gen_answer"] = gen_status(a),
                                  !["emit_medium_results"] = after_emit(o)]
    /\ UNCHANGED <<pc, failed_at, search_response, classification_response, query, tags,
                   general_results, html_web_pages, web_pages, medium_results, calls,
                   saved, given, earlier>>

\* the await of emit_answer ends and gen_answer reads on
GenAnswerResumes ==
    /\ task["gen_answer"] = "waiting"
    /\ blocked = <<>>
    /\ \E a \in Advances(chunks) :
          /\ GenAdvance(a)
          /\ events' = gen_events(a, events)
          /\ task' = [task EXCEPT !["gen_answer"] = gen_status(a)]
    /\ UNCHANGED <<pc, failed_at, search_response, classification_response, query, tags,
                   general_results, html_web_pages, web_pages, medium_results, blocked,
                   calls, saved, given, earlier>>

\* run after the step-5 gather: the record is assembled and handed to the store
RunSave ==
    /\ pc = "step5"
    /\ step5_joined
    /\ pc' = "save_chat_history"
    /\ \E id \in Ids \ {saved[i].id : i \in DOMAIN saved} :
          saved' = save_chat_history(saved,
                      ChatHistory(id, medium_results[1], general_results, answer, tags))
    /\ calls' = Append(calls, [kind |-> "save"])
    /\ UNCHANGED <<failed_at, task, search_response, classification_response, query, tags,
                   general_results, html_web_pages, web_pages, medium_results, blocked,
                   chunks, final_answer_parts, answer, events, given, earlier>>

\* the step-5 gather raises the exception of a failed sub-task
Step5Raises ==
    /\ pc = "step5"
    /\ \E t \in {"gen_answer", "emit_medium_results"} :
          /\ task[t] = "failed"
          /\ Fail(StageOf(t))
    /\ UNCHANGED <<task, search_response, classification_response, query, tags,
                   general_results, html_web_pages, web_pages, medium_results, blocked,
                   chunks, final_answer_parts, answer, events, calls, saved, given, earlier>>

\* save_chat_history returns and run() ends
SaveReturns ==
    /\ pc = "save_chat_history"
    /\ pc' = "Done"
    /\ UNCHANGED <<failed_at, task, search_response, classification_response, query, tags,
                   general_results, html_web_pages, web_pages, medium_results, blocked,
                   chunks, final_answer_parts, answer, events, calls, saved, given, earlier>>

\* save_chat_history raises
SaveRaises ==
    /\ pc = "save_chat_history"
    /\ Fail("persistence")
    /\ UNCHANGED <<task, search_response, classification_response, query, tags,
                   general_results, html_web_pages, web_pages, medium_results, blocked,
                   chunks, final_answer_parts, answer, events, calls, saved, given, earlier>>

Next ==
    \/ LoadChatHistory
    \/ RewriteReturns
    \/ ClassifyReturns
    \/ ProcessUserQuery
    \/ ProcessUserQueryRaises
    \/ SearchReturns
    \/ EmitMetadataReturns
    \/ RunStep4
    \/ Step3Raises
    \/ EmitWebResultsReturns
    \/ FetchPage
    \/ FetchWebPagesReturns
    \/ MediaSearchReturns
    \/ RunStep5
    \/ Step4Raises
    \/ CreateReturns
    \/ GenAnswerResumes
    \/ EmitMediumResultsReturns
    \/ RunSave
    \/ Step5Raises
    \/ SaveReturns
    \/ SaveRaises

Spec == Init /\ [][Next]_vars

\* ---------------------------------------------------- runs that terminate

\* the run with fewer answers of the classifier and of the general search
FewClassifyReturns == ClassifyReturnsFrom(FewClassifyOutputs)

FewSearchReturns ==
    SearchReturnsFrom({r \in SearchResponses({"general"}) : Len(r.general) <= FewResults})

FewNext ==
    \/ LoadChatHistory
    \/ RewriteReturns
    \/ FewClassifyReturns
    \/ ProcessUserQuery
    \/ ProcessUserQueryRaises
    \/ FewSearchReturns
    \/ EmitMetadataReturns
    \/ RunStep4
    \/ Step3Raises
    \/ EmitWebResultsReturns
    \/ FetchPage
    \/ FetchWebPagesReturns
    \/ MediaSearchReturns
    \/ RunStep5
    \/ Step4Raises
    \/ CreateReturns
    \/ GenAnswerResumes
    \/ EmitMediumResultsReturns
    \/ RunSave
    \/ Step5Raises
    \/ SaveReturns
    \/ SaveRaises

\* every outbound call eventually returns or fails and the event loop runs
\* every task that can run
Fairness ==
    /\ WF_vars(LoadChatHistory)
    /\ WF_vars(RewriteReturns)
    /\ WF_vars(FewClassifyReturns)
    /\ WF_vars(ProcessUserQuery)
    /\ WF_vars(ProcessUserQueryRaises)
    /\ WF_vars(FewSearchReturns)
    /\ WF_vars(EmitMetadataReturns)
    /\ WF_vars(RunStep4)
    /\ WF_vars(Step3Raises)
    /\ WF_vars(EmitWebResultsReturns)
    /\ WF_vars(FetchPage)
    /\ WF_vars(FetchWebPagesReturns)
    /\ WF_vars(MediaSearchReturns)
    /\ WF_vars(RunStep5)
    /\ WF_vars(Step4Raises)
    /\ WF_vars(CreateReturns)
    /\ WF_vars(GenAnswerResumes)
    /\ WF_vars(EmitMediumResultsReturns)
    /\ WF_vars(RunSave)
    /\ WF_vars(Step5Raises)
    /\ WF_vars(SaveReturns)
    /\ WF_vars(SaveRaises)

FairSpec == Init /\ [][FewNext]_vars /\ Fairness

\* ------------------------------------------- process_user_query on its own

\* both completions are back, the classification being the rendering of the
\* classifier's answer `given`
InitParse ==
    /\ pc = "process_user_query"
    /\ failed_at = "none"
    /\ task = [t \in TaskNames |-> IF t \in {"rewrite", "classify"} THEN "ok" ELSE "new"]
    /\ search_response \in RewriteOutputs
    /\ given \in {[f |-> f, style |-> st] : f \in Assignments(Keys), st \in Styles}
    /\ earlier = <<>>
    /\ classification_response = Render(given.f, given.style)
    /\ query = <<>>
    /\ tags = NoTags
    /\ general_results = <<>>
    /\ html_web_pages = <<>>
    /\ web_pages = <<>>
    /\ medium_results = NoResult
    /\ blocked = <<>>
    /\ chunks = <<>>
    /\ final_answer_parts = <<>>
    /\ answer = <<>>
    /\ events = <<>>
    /\ calls = <<[kind |-> "rewrite"], [kind |-> "classify"]>>
    /\ saved = <<>>

NextParse == ProcessUserQuery

SpecParse == InitParse /\ [][NextParse]_vars

\* ------------------------------------- the rewrite output on its way to the searches

\* what the rewrite completion may answer, token by token
QueryStrings == UNION {[1..k -> {"q", DQ, SQ, SP}] : k \in 0..MaxQueryTokens}

\* both completions are back, the rewrite being any of QueryStrings
InitRewrite ==
    /\ pc = "process_user_query"
    /\ failed_at = "none"
    /\ task = [t \in TaskNames |-> IF t \in {"rewrite", "classify"} THEN "ok" ELSE "new"]
    /\ search_response \in QueryStrings
    /\ given = NoGiven
    /\ earlier = <<>>
    /\ classification_response \in
          {Render(f, "plain") : f \in [{"SEARCH_IMAGE", "SEARCH_VIDEO"} -> YesNo]}
    /\ query = <<>>
    /\ tags = NoTags
    /\ general_results = <<>>
    /\ html_web_pages = <<>>
    /\ web_pages = <<>>
    /\ medium_results = NoResult
    /\ blocked = <<>>
    /\ chunks = <<>>
    /\ final_answer_parts = <<>>
    /\ answer = <<>>
    /\ events = <<>>
    /\ calls = <<[kind |-> "rewrite"], [kind |-> "classify"]>>
    /\ saved = <<>>

\* the run up to the start of its step-4 gather, where the media search is issued
NextRewrite ==
    \/ ProcessUserQuery
    \/ FewSearchReturns
    \/ EmitMetadataReturns
    \/ RunStep4
    \/ Step3Raises

SpecRewrite == InitRewrite /\ [][NextRewrite]_vars

\* ------------------------------------------------- one run after the other

\* what the collaborators handed to the run that is at its end
inputs_of_run ==
    [query |-> query, tags |-> tags, general_results |-> general_results,
     medium_results |-> medium_results, chunks |-> chunks]

\* run() has returned and the agent is given the same utterance on the same
\* thread again: a new run starts with fresh locals, on the same chat store,
\* as long as uuid4 has an identifier left that the store does not hold
RunAgain ==
    /\ pc = "Done"
    /\ Ids \ {saved[i].id : i \in DOMAIN saved} # {}
    /\ earlier' = Append(earlier, inputs_of_run)
    /\ pc' = "load_chat_history"
    /\ task' = [t \in TaskNames |-> "new"]
    /\ query' = <<>>
    /\ tags' = NoTags
    /\ general_results' = <<>>
    /\ medium_results' = NoResult
    /\ chunks' = <<>>
    /\ final_answer_parts' = <<>>
    /\ answer' = <<>>
    /\ events' = <<>>
    /\ calls' = <<>>
    /\ UNCHANGED <<failed_at, search_response, classification_response, html_web_pages,
                   web_pages, blocked, saved, given>>

\* the classifier asks for images or for no media
TwoRunsClassifyReturns ==
    ClassifyReturnsFrom({Render([k \in {"SEARCH_IMAGE", "SEARCH_VIDEO"} |->
                                    IF k = "SEARCH_IMAGE" THEN v ELSE "NO"], "plain") :
                            v \in YesNo})

\* the general search finds one result or none
TwoRunsSearchReturns ==
    SearchReturnsFrom({r \in SearchResponses({"general"}) : Len(r.general) <= 1})

NextTwoRuns ==
    \/ LoadChatHistory
    \/ RewriteReturns
    \/ TwoRunsClassifyReturns
    \/ ProcessUserQuery
    \/ ProcessUserQueryRaises
    \/ TwoRunsSearchReturns
    \/ EmitMetadataReturns
    \/ RunStep4
    \/ Step3Raises
    \/ EmitWebResultsReturns
    \/ FetchPage
    \/ FetchWebPagesReturns
    \/ MediaSearchReturns
    \/ RunStep5
    \/ Step4Raises
    \/ CreateReturns
    \/ GenAnswerResumes
    \/ EmitMediumResultsReturns
    \/ RunSave
    \/ Step5Raises
    \/ SaveReturns
    \/ SaveRaises
    \/ RunAgain

SpecTwoRuns == Init /\ [][NextTwoRuns]_vars

\* ---------------------------------- runs that differ in two tags, one after
\* ---------------------------------- the other

\* what the collaborators handed to the run that is at its end, and what the
\* run called and emitted
doings_of_run ==
    [query |-> query, tags |-> tags, general_results |-> general_results,
     medium_results |-> medium_results, chunks |-> chunks,
     calls |-> calls, events |-> events]

\* RunAgain, with the calls and events of the run that has returned kept for
\* comparison
RunTwin ==
    /\ pc = "Done"
    /\ Ids \ {saved[i].id : i \in DOMAIN saved} # {}
    /\ earlier' = Append(earlier, doings_of_run)
    /\ pc' = "load_chat_history"
    /\ task' = [t \in TaskNames |-> "new"]
    /\ query' = <<>>
    /\ tags' = NoTags
    /\ general_results' = <<>>
    /\ medium_results' = NoResult
    /\ chunks' = <<>>
    /\ final_answer_parts' = <<>>
    /\ answer' = <<>>
    /\ events' = <<>>
    /\ calls' = <<>>
    /\ UNCHANGED <<failed_at, search_response, classification_response, html_web_pages,
                   web_pages, blocked, saved, given>>

\* the classifier answers SEARCH_NEEDED, SEARCH_IMAGE and CONTENT_VIOLATION
\* in every combination, and SEARCH_VIDEO:NO
TwinKeys == {"SEARCH_NEEDED", "SEARCH_IMAGE", "SEARCH_VIDEO", "CONTENT_VIOLATION"}

TwinsClassifyReturns ==
    ClassifyReturnsFrom({Render(f, "plain") :
                            f \in {g \in [TwinKeys -> YesNo] : g["SEARCH_VIDEO"] = "NO"}})

NextTwins ==
    \/ LoadChatHistory
    \/ RewriteReturns
    \/ TwinsClassifyReturns
    \/ ProcessUserQuery
    \/ ProcessUserQueryRaises
    \/ TwoRunsSearchReturns
    \/ EmitMetadataReturns
    \/ RunStep4
    \/ Step3Raises
    \/ EmitWebResultsReturns
    \/ FetchPage
    \/ FetchWebPagesReturns
    \/ MediaSearchReturns
    \/ RunStep5
    \/ Step4Raises
    \/ CreateReturns
    \/ GenAnswerResumes
    \/ EmitMediumResultsReturns
    \/ RunSave
    \/ Step5Raises
    \/ SaveReturns
    \/ SaveRaises
    \/ RunTwin

SpecTwins == Init /\ [][NextTwins]_vars

\* ------------------------------------------------------------------ claims

EventsOfType(type) == SelectSeq(events, LAMBDA e : e.type = type)

SearchCalls == SelectSeq(calls, LAMBDA c : c.kind = "search")

GeneralCalls == SelectSeq(SearchCalls, LAMBDA c : c.categories = <<"general">>)

MediaCalls == SelectSeq(SearchCalls, LAMBDA c : c.categories # <<"general">>)

InFlight == {t \in TaskNames : task[t] = "waiting"}

\* process_user_query has returned its EnrichedQuery
PastClassification == task["search"] # "new"

\* the step-3 gather has returned and the step-4 gather was started
ReachedStep4 == task["emit_web_results"] # "new"

\* the step-4 gather has returned and the step-5 gather was started
ReachedStep5 == task["gen_answer"] # "new"

\* C1: every answer event has a web_results event before it, and a run that
\* ends Done has emitted web_results
C1_WebResultsBeforeAnswer ==
    /\ \A j \in DOMAIN events :
          events[j].type = "answer" =>
             \E i \in 1..(j - 1) : events[i].type = "web_results"
    /\ pc = "Done" => EventsOfType("web_results") # <<>>

C1_Witness == pc = "Done" /\ Len(EventsOfType("answer")) >= 2

\* C2: once a record was handed to save_chat_history, gen_answer and
\* emit_medium_results have both returned, the medium_results event is out, the
\* record's answer is the text of all answer events, and no event follows
C2_SaveAfterAnswerAndMedium ==
    /\ [](saved # <<>> =>
             /\ task["gen_answer"] = "ok"
             /\ task["emit_medium_results"] = "ok"
             /\ Len(EventsOfType("medium_results")) = 1
             /\ LET fragments == EventsOfType("answer")
                IN  saved[1].answer = concat([i \in 1..Len(fragments) |-> fragments[i].data]))
    /\ [][saved # <<>> => events' = events]_vars

C2_Witness ==
    /\ saved # <<>>
    /\ Len(EventsOfType("answer")) >= 2
    /\ \E i \in DOMAIN events : events[i].type = "medium_results" /\ events[i].data # <<>>

\* C3: a run that is Done has handed over exactly one record; a run that
\* failed at any stage before persistence has handed over none
C3_OneRecordIffDone ==
    /\ pc = "Done" => Len(saved) = 1
    /\ (pc = "Failed" /\ failed_at # "persistence") => Len(saved) = 0
    /\ pc \notin {"Done", "Failed", "save_chat_history"} => Len(saved) = 0

C3_Witness == pc = "Done" /\ Len(saved) = 1

\* C4: once run() has failed no sub-task is in flight and no event follows
C4_NothingOutlivesFailedRun ==
    /\ [](pc = "Failed" =>
             /\ InFlight = {}
             /\ \A i \in DOMAIN html_web_pages : html_web_pages[i] # Pending)
    /\ [][pc = "Failed" => events' = events]_vars

\* C4, the case it names: no answer event after emit_medium_results failed the run
C4_NoAnswerAfterFailure ==
    [][(pc = "Failed" /\ failed_at = "medium_results") => events' = events]_vars

NoMediaFlag == ~tags.needs_image /\ ~tags.needs_video

\* what the media search, or its empty substitute, resolved to
ResolvedMedia == medium_results[1]

NoMediaFound == ResolvedMedia.images = <<>> /\ ResolvedMedia.videos = <<>>

\* C5 as stated: the medium_results payload is empty iff neither flag was true
C5_EmptyIffNoFlag ==
    \A i \in DOMAIN events :
       events[i].type = "medium_results" => (events[i].data = <<>> <=> NoMediaFlag)

\* C5 as amended: with neither flag true the payload is empty; with a flag
\* true it is empty iff the media search found no image and no video
C5_EmptyIffNoFlagOrNothingFound ==
    \A i \in DOMAIN events :
       events[i].type = "medium_results" =>
          /\ NoMediaFlag => events[i].data = <<>>
          /\ ~NoMediaFlag => (events[i].data = <<>> <=> NoMediaFound)
          /\ Len(events[i].data) = Len(ResolvedMedia.images) + Len(ResolvedMedia.videos)

C5_Witness ==
    /\ ~tags.needs_image
    /\ tags.needs_video
    /\ \E i \in DOMAIN events : events[i].type = "medium_results" /\ events[i].data # <<>>

\* the categories the media call should carry
WantedCategories ==
    (IF tags.needs_image THEN {"images"} ELSE {}) \cup
    (IF tags.needs_video THEN {"videos"} ELSE {})

\* C6 as stated: a run past classification that has ended issued the media
\* call iff a media flag was true
C6_MediaCallIffFlag ==
    (PastClassification /\ pc \in {"Done", "Failed"} /\ InFlight = {}) =>
       (Len(MediaCalls) = 1 <=> ~NoMediaFlag)

\* C6 as amended: past classification there is exactly one general call and at
\* most one media call, which carries exactly the wanted categories and the
\* same query; once the step-4 gather was started the media call was issued
\* iff a media flag is true, and without one an empty TopResults stands in
C6_SearchCalls ==
    /\ ~PastClassification => SearchCalls = <<>>
    /\ PastClassification => Len(GeneralCalls) = 1
    /\ Len(MediaCalls) <= 1
    /\ \A i \in DOMAIN MediaCalls :
          /\ Range(MediaCalls[i].categories) = WantedCategories
          /\ Len(MediaCalls[i].categories) = Cardinality(WantedCategories)
          /\ MediaCalls[i].query = GeneralCalls[1].query
    /\ ReachedStep4 => (Len(MediaCalls) = 1 <=> ~NoMediaFlag)
    /\ ~ReachedStep4 => MediaCalls = <<>>
    /\ (ReachedStep5 /\ NoMediaFlag) => medium_results = <<TopResults(0, 0, 0)>>

C6_Witness ==
    /\ ReachedStep5
    /\ Len(MediaCalls) = 1
    /\ tags.needs_video
    /\ ~tags.needs_image

\* the response fetch_page got for the i-th url, had its fetch not raised
ResponseOf(pages, i) ==
    IF pages[i] = ErrorPage(general_results[i].url)
    THEN ErrorPage(general_results[i].url)
    ELSE Html(general_results[i].url)

\* what fetch_web_pages owes for the pages its fetches brought back: one
\* document per url in input order, empty where the fetch raised
OwedDocuments(pages) ==
    [i \in 1..Len(pages) |->
        IF pages[i] = None THEN <<>> ELSE extract(ResponseOf(pages, i))]

\* C7: fetch_web_pages returns one document per url in input order, the empty
\* document at each failing index and elsewhere the document of that url
\* alone; it never raises
C7_FetchKeepsLengthAndOrder ==
    /\ [](task["fetch_web_pages"] # "failed")
    /\ [][(task["fetch_web_pages"] = "waiting" /\ task["fetch_web_pages"]' = "ok") =>
             /\ Len(web_pages') = Len(top_results(general_results))
             /\ web_pages' = OwedDocuments(html_web_pages)]_vars
    /\ [][(task["fetch_web_pages"] = "new" /\ task["fetch_web_pages"]' = "ok") =>
             /\ top_results(general_results) = <<>>
             /\ web_pages' = <<>>]_vars

C7_Witness ==
    /\ task["fetch_web_pages"] = "ok"
    /\ Len(web_pages) = TopK
    /\ web_pages[1] = <<>>
    /\ web_pages[2] # <<>>
    /\ web_pages[TopK] = <<>>

\* a tag as the classifier's answer f has it: YES or NO where f mentions the
\* key, the documented default where it does not
TagOf(f, key, default) == IF key \in DOMAIN f THEN f[key] = "YES" ELSE default

ExpectedTags(f) ==
    [needs_search |-> TagOf(f, "SEARCH_NEEDED", TRUE),
     needs_image |-> TagOf(f, "SEARCH_IMAGE", TRUE),
     needs_video |-> TagOf(f, "SEARCH_VIDEO", TRUE),
     content_violation |-> TagOf(f, "CONTENT_VIOLATION", FALSE),
     has_math |-> TagOf(f, "MATH", FALSE)]

\* process_user_query has run on the rendering of `given`
Parsed == given # NoGiven /\ pc # "process_user_query"

\* C8 as stated: for every subset of the five keys, the empty one included,
\* process_user_query returns the tags of the classifier's answer
C8_TagsForEverySubset ==
    Parsed => (pc = "step3" /\ tags = ExpectedTags(given.f))

\* C8 as amended: for every non-empty subset of the five keys
\* process_user_query returns the tags of the classifier's answer; for the
\* empty output it raises
C8_TagsForNonEmptySubset ==
    Parsed =>
       IF DOMAIN given.f = {}
       THEN pc = "Failed" /\ failed_at = "classification"
       ELSE pc = "step3" /\ tags = ExpectedTags(given.f)

C8_Witness ==
    /\ Parsed
    /\ DOMAIN given.f = {"SEARCH_VIDEO", "MATH"}
    /\ given.style = "spaced"
    /\ tags = [needs_search |-> TRUE, needs_image |-> TRUE, needs_video |-> FALSE,
               content_violation |-> FALSE, has_math |-> TRUE]

\* the items of a classification output, as the claim counts them
Items(s) ==
    LET parts == split(strip_quotes(s), COMMA)
    IN  [k \in 1..Len(parts) |-> strip(parts[k], {SP})]

Colons(item) == Cardinality({i \in 1..Len(item) : item[i] = COLON})

\* an item without a colon (the empty item among them) or with several
BadShape(s) == \E k \in DOMAIN Items(s) : Colons(Items(s)[k]) # 1

\* an item KEY:VALUE whose value is neither YES nor NO
BadValue(s) ==
    \E k \in DOMAIN Items(s) :
       LET item == Items(s)[k]
       IN  /\ Colons(item) = 1
           /\ strip(split(item, COLON)[2], {SP}) \notin {<<"YES">>, <<"NO">>}

\* process_user_query is about to parse this classification output
Parsing == pc = "process_user_query" /\ classified

ParseFails ==
    /\ pc' = "Failed"
    /\ failed_at' = "classification"
    /\ UNCHANGED <<calls, events, saved, task>>

\* a run that failed in classification does nothing more
QuietAfterClassificationFailure ==
    [](failed_at = "classification" =>
          /\ SearchCalls = <<>>
          /\ events = <<>>
          /\ saved = <<>>
          /\ \A t \in TaskNames \ {"rewrite", "classify"} : task[t] = "new")

\* C9 as stated: an output with an item of the wrong shape or with a value
\* other than YES or NO fails the run in classification, with no search, no
\* event and no record
C9_MalformedFails ==
    /\ [][(Parsing /\ (BadShape(classification_response) \/ BadValue(classification_response)))
             => ParseFails]_vars
    /\ QuietAfterClassificationFailure

\* C9 as amended: an output fails the run in classification, with no search,
\* no event and no record, iff one of its items has no colon, several colons
\* or is empty; a value other than YES or NO does not fail it
C9_BadShapeFails ==
    /\ [][Parsing => (IF BadShape(classification_response) THEN ParseFails ELSE pc' = "step3")]_vars
    /\ [](failed_at = "classification" => pc = "Failed")
    /\ QuietAfterClassificationFailure

C9_Witness ==
    /\ pc = "Failed"
    /\ failed_at = "classification"
    /\ classified

MetadataEvents == EventsOfType("metadata")

\* C10 as stated: past classification exactly one metadata event was emitted,
\* with the parsed has_math, and the record carries the same has_math
C10_OneMetadataEvent ==
    /\ PastClassification =>
          /\ Len(MetadataEvents) = 1
          /\ MetadataEvents[1].data.has_math = tags.has_math
    /\ \A i \in DOMAIN saved : saved[i].metadata.has_math = MetadataEvents[1].data.has_math

\* C10 as amended: past classification exactly one metadata event was
\* emitted unless its emit raised, and none before; the event carries the
\* parsed has_math; a run that got past the step-3 gather has emitted it, and
\* its record carries the same has_math
C10_MetadataMatchesTags ==
    /\ ~PastClassification => MetadataEvents = <<>>
    /\ PastClassification =>
          Len(MetadataEvents) = (IF task["emit_metadata"] = "failed" THEN 0 ELSE 1)
    /\ \A i \in DOMAIN MetadataEvents : MetadataEvents[i].data.has_math = tags.has_math
    /\ ReachedStep4 => Len(MetadataEvents) = 1
    /\ \A i \in DOMAIN saved :
          /\ Len(MetadataEvents) = 1
          /\ saved[i].metadata.has_math = MetadataEvents[1].data.has_math

C10_Witness ==
    /\ pc = "Done"
    /\ saved[1].metadata.has_math
    /\ MetadataEvents[1].data.has_math

\* a fetch that failed: it raised, or its response has a status other than 2xx
FetchFailed(page) == page = None \/ page[1] = "error"

\* C11: no failing page fetch fails the run: fetch_web_pages returns the empty
\* document for each fetch that raised or got a non-2xx response and the
\* document of its url for each other, and gen_answer is invoked with exactly
\* these documents, one per fetched url in ranking order
C11_FailedFetchIsEmptyDocument ==
    /\ [](task["fetch_web_pages"] # "failed" /\ failed_at # "page_fetch")
    /\ [][(task["fetch_web_pages"] = "waiting" /\ task["fetch_web_pages"]' = "ok") =>
             \A i \in DOMAIN html_web_pages :
                web_pages'[i] = IF FetchFailed(html_web_pages[i]) THEN <<>>
                                ELSE extract(Html(general_results[i].url))]_vars
    /\ [][(blocked = <<>> /\ blocked' # <<>>) =>
             /\ blocked'[1].documents = web_pages
             /\ Len(blocked'[1].documents) = Min(TopK, Len(general_results))]_vars

\* the calls whose failure the run does not recover
Unrecovered == {"rewrite", "classify", "search", "media_search", "gen_answer"}

\* the await of run() that a sub-task belongs to
AwaitOf(t) ==
    CASE t \in {"rewrite", "classify"} -> "process_user_query"
      [] t \in {"search", "emit_metadata"} -> "step3"
      [] t \in {"emit_web_results", "fetch_web_pages", "media_search"} -> "step4"
      [] t \in {"gen_answer", "emit_medium_results"} -> "step5"

CallsOfKind(kind) == SelectSeq(calls, LAMBDA c : c.kind = kind)

\* C12: after the rewrite, the classification, a search or the synthesis
\* failed, run() gets no further than the await that call belongs to and ends
\* Failed; no call is issued twice; a failed run issues no call and starts no
\* sub-task
C12_NoRecoveryNoRetry ==
    /\ [](\A t \in Unrecovered : task[t] = "failed" => pc \in {AwaitOf(t), "Failed"})
    /\ \A t \in Unrecovered : (task[t] = "failed") ~> (pc = "Failed")
    /\ [](/\ Len(CallsOfKind("rewrite")) <= 1
          /\ Len(CallsOfKind("classify")) <= 1
          /\ Len(GeneralCalls) <= 1
          /\ Len(MediaCalls) <= 1
          /\ Len(CallsOfKind("synthesize")) <= 1)
    /\ [][pc = "Failed" =>
             /\ pc' = "Failed"
             /\ calls' = calls
             /\ \A t \in TaskNames : task[t] = "new" => task'[t] = "new"]_vars

C12_Witness ==
    /\ pc = "Failed"
    /\ failed_at = "media_search"
    /\ task["media_search"] = "failed"
    /\ Len(MediaCalls) = 1
    /\ task["gen_answer"] = "new"

\* the payloads of the answer events, in emission order
AnswerPayloads ==
    LET sent == EventsOfType("answer")
    IN  [i \in 1..Len(sent) |-> sent[i].data]

\* the fragments the stream has delivered, in arrival order
Delivered == SelectSeq(chunks, LAMBDA c : c # <<>>)

RECURSIVE Joined(_)
\* the fragments one after the other, built from the last one backwards
Joined(parts) ==
    IF parts = <<>> THEN <<>>
    ELSE Joined(SubSeq(parts, 1, Len(parts) - 1)) \o parts[Len(parts)]

\* C13: the answer events are the delivered fragments in arrival order (but
\* for the one whose emit raised and ended gen_answer), gen_answer returns
\* their concatenation, and the record's answer is the concatenation of the
\* payloads of the answer events
C13_AnswerIsConcatenation ==
    /\ final_answer_parts = Delivered
    /\ \/ AnswerPayloads = Delivered
       \/ /\ task["gen_answer"] = "failed"
          /\ AnswerPayloads = SubSeq(Delivered, 1, Len(Delivered) - 1)
    /\ task["gen_answer"] = "ok" =>
          /\ AnswerPayloads = Delivered
          /\ answer = Joined(Delivered)
    /\ \A i \in DOMAIN saved : saved[i].answer = Joined(AnswerPayloads)

C13_Witness ==
    /\ pc = "Done"
    /\ AnswerPayloads = << <<"b">>, <<"a">> >>
    /\ saved[1].answer = <<"b", "a">>

\* a rewrite output with its leading and trailing whitespace trimmed and the
\* quote characters around it removed
TrimmedAndUnquoted(s) == strip(strip(strip(s, {SP}), {DQ}), {SQ})

\* C14: the query is the rewrite output trimmed of whitespace and of the
\* quotes around it, and every search call of the run carries it
C14_QueryIsTrimmedRewrite ==
    /\ [][(Parsing /\ pc' = "step3") => query' = TrimmedAndUnquoted(search_response)]_vars
    /\ [](\A i \in DOMAIN SearchCalls : SearchCalls[i].query = query)

\* the run at its end was handed what the k-th run before it was handed
SameInputs(k) == earlier[k] = inputs_of_run

\* C15: every successful run persists one more record, no two records share
\* an id, and the record of a run has the query, answer and web_results of
\* the record of every earlier run that was given the same inputs
C15_TwoRecordsSameContent ==
    /\ pc = "Done" => Len(saved) = Len(earlier) + 1
    /\ \A i, j \in DOMAIN saved : i # j => saved[i].id # saved[j].id
    /\ \A k \in DOMAIN earlier :
          (pc = "Done" /\ SameInputs(k)) =>
             /\ saved[k].query = saved[Len(saved)].query
             /\ saved[k].answer = saved[Len(saved)].answer
             /\ saved[k].web_results = saved[Len(saved)].web_results

C15_Witness ==
    /\ pc = "Done"
    /\ Len(saved) = 2
    /\ SameInputs(1)
    /\ saved[1].id # saved[2].id
    /\ saved[1].answer = <<"a", "b">>
    /\ saved[2].answer = <<"a", "b">>
    /\ Len(saved[2].web_results) = 1

FetchCalls == CallsOfKind("fetch")

\* C16: no page fetch is initiated unless the web_results event was emitted
C16_WebResultsBeforeFetch ==
    FetchCalls # <<>> => EventsOfType("web_results") # <<>>

\* a step of the run that emits the medium_results event and in which
\* gen_answer does not move
MediumStepAlone ==
    /\ Next
    /\ \E i \in DOMAIN events' : events'[i].type = "medium_results"
    /\ UNCHANGED <<blocked, chunks, final_answer_parts, answer>>

\* C17: the medium_results event is emitted only after the media search or
\* its substitute resolved, and from the start of the step-5 gather on
\* emit_medium_results can take its step wherever gen_answer is
C17_MediumNotBlockedOnStreaming ==
    /\ EventsOfType("medium_results") # <<>> =>
          (task["media_search"] = "ok" /\ medium_results # NoResult)
    /\ (pc = "step5" /\ task["emit_medium_results"] = "new") => ENABLED MediumStepAlone

\* the awaits of run() in program order
StageRank ==
    [s \in {"load_chat_history", "process_user_query", "step3", "step4", "step5",
            "save_chat_history", "Done"} |->
        CASE s = "load_chat_history" -> 0
          [] s = "process_user_query" -> 1
          [] s = "step3" -> 2
          [] s = "step4" -> 3
          [] s = "step5" -> 4
          [] s = "save_chat_history" -> 5
          [] s = "Done" -> 6]

\* run() moves from an await to the next one or fails, and never leaves Done
\* or Failed
StageOrder ==
    pc' # pc =>
       /\ pc \notin {"Done", "Failed"}
       /\ pc' = "Failed" \/ StageRank[pc'] = StageRank[pc] + 1

Ended == pc \in {"Done", "Failed"}

\* an outbound call of the run has not returned
Outstanding ==
    \/ InFlight # {}
    \/ \E i \in DOMAIN html_web_pages : html_web_pages[i] = Pending
    \/ blocked # <<>>
    \/ pc = "save_chat_history"

Twin(k) ==
    /\ earlier[k].query = query
    /\ earlier[k].general_results = general_results
    /\ earlier[k].medium_results = medium_results
    /\ earlier[k].chunks = chunks
    /\ earlier[k].tags.needs_image = tags.needs_image
    /\ earlier[k].tags.needs_video = tags.needs_video
    /\ earlier[k].tags.has_math = tags.has_math

\* C19: a successful run has issued the calls, emitted the events and
\* persisted the record (but for its id) of every earlier run that differed
\* from it in needs_search and content_violation only; whatever the two tags
\* are, the general search is issued once the tags are parsed and the
\* synthesis once the step-4 gather is through
C19_TwoTagsWithoutEffect ==
    /\ \A k \in DOMAIN earlier :
          (pc = "Done" /\ Twin(k)) =>
             /\ calls = earlier[k].calls
             /\ events = earlier[k].events
             /\ saved[k] = [saved[Len(saved)] EXCEPT !.id = saved[k].id]
    /\ tags # NoTags => Len(GeneralCalls) = 1
    /\ pc \in {"step5", "save_chat_history", "Done"} => Len(CallsOfKind("synthesize")) = 1

C19_Witness ==
    /\ pc = "Done"
    /\ Len(saved) = 2
    /\ Twin(1)
    /\ earlier[1].tags.content_violation /\ ~tags.content_violation
    /\ ~earlier[1].tags.needs_search /\ tags.needs_search
    /\ tags.needs_image
    /\ Len(MediaCalls) = 1
    /\ Len(CallsOfKind("fetch")) = 1
    /\ Len(EventsOfType("answer")) = 2
    /\ saved[2].mediums # <<>>

\* images first, then videos
ImagesThenVideos(mediums) ==
    \A i, j \in DOMAIN mediums :
       (mediums[i].medium = "video" /\ mediums[j].medium = "image") => j < i

\* C20: the record of a successful run holds the payload of the run's
\* web_results event, which is every general result in ranking order, the
\* payload of its medium_results event, which is the images in search order
\* and then the videos in search order, and the utterance as its query
C20_RecordMatchesEvents ==
    pc = "Done" =>
       LET record == saved[Len(saved)]
           web == EventsOfType("web_results")
           medium == EventsOfType("medium_results")
       IN  /\ Len(web) = 1
           /\ record.web_results = web[1].data
           /\ Len(record.web_results) = Len(general_results)
           /\ \A i \in DOMAIN general_results :
                 /\ record.web_results[i].url = general_results[i].url
                 /\ record.web_results[i].title = general_results[i].title
                 /\ record.web_results[i].content = general_results[i].content
           /\ Len(medium) = 1
           /\ record.mediums = medium[1].data
           /\ ImagesThenVideos(record.mediums)
           /\ Len(record.mediums) =
                 Len(medium_results[1].images) + Len(medium_results[1].videos)
           /\ \A i \in DOMAIN medium_results[1].images :
                 record.mediums[i].url = medium_results[1].images[i].url
           /\ \A i \in DOMAIN medium_results[1].videos :
                 record.mediums[Len(medium_results[1].images) + i].url =
                    medium_results[1].videos[i].url
           /\ record.query = user_message
           /\ record.query # query

C20_Witness ==
    /\ pc = "Done"
    /\ Len(saved[1].web_results) > TopK
    /\ Len(FetchCalls) = TopK
    /\ \E i, j \in DOMAIN saved[1].mediums :
          saved[1].mediums[i].medium = "image" /\ saved[1].mediums[j].medium = "video"
    /\ saved[1].query = <<"utterance">>
    /\ query = <<"q">>

====
